---- MODULE Spec2Model ----
(***************************************************************************)
(* Model of the report-analysis server (src/server/index.js, second        *)
(* definition of the application, lines 245-679): the analyze-report       *)
(* pipeline (upload, OCR worker, completion service, JSON normalisation,   *)
(* Report save) and the report history query.                              *)
(*                                                                         *)
(* Texts are sequences of tokens; JSON values are tagged records.  The     *)
(* handler is split at its awaits: every action is the synchronous code    *)
(* that runs between two awaits of one request.                            *)
(***************************************************************************)
EXTENDS Integers, Sequences, FiniteSets, TLC

(***************************************************************************)
(* JavaScript values                                                       *)
(***************************************************************************)
Undefined == [t |-> "undef"]
Null == [t |-> "null"]
Str(s) == [t |-> "str", s |-> s]
Num(s) == [t |-> "num", s |-> s]
Bool(s) == [t |-> "bool", s |-> s]
NoProps == [k \in {} |-> Null]
\* an array: its elements and the named properties assigned to it
Arr(elems) == [t |-> "arr", a |-> elems, p |-> NoProps]
Obj(fields) == [t |-> "obj", o |-> fields]
EmptyObj == Obj(NoProps)

\* ToBoolean, as  x || d  and  !x  apply it
Truthy(v) ==
    CASE v.t = "undef" -> FALSE
      [] v.t = "null" -> FALSE
      [] v.t = "bool" -> v.s = "true"
      [] v.t = "num" -> v.s # "0"
      [] v.t = "str" -> v.s # ""
      [] OTHER -> TRUE

\* x || d
OrElse(v, d) == IF Truthy(v) THEN v ELSE d

IsObjectLike(v) == v.t \in {"obj", "arr"}

\* the properties of an object or an array
Props(v) == IF v.t = "obj" THEN v.o ELSE v.p

\* field in v ; a TypeError when v is not an object
HasField(v, field) == field \in DOMAIN Props(v)

\* v.field : undefined when absent, and for a primitive
GetField(v, field) ==
    IF IsObjectLike(v) /\ field \in DOMAIN Props(v) THEN Props(v)[field] ELSE Undefined

\* v.field = x on an object or an array
SetField(v, field, x) ==
    LET q == [k \in DOMAIN Props(v) \cup {field} |->
                 IF k = field THEN x ELSE Props(v)[k]]
    IN  IF v.t = "obj" THEN [v EXCEPT !.o = q] ELSE [v EXCEPT !.p = q]

(***************************************************************************)
(* Texts: a text is a sequence of tokens.  A token is white space, one of  *)
(* JSON's punctuation marks, a string literal, a number, one of the        *)
(* literals null/true/false, or a word of prose (no JSON token).           *)
(***************************************************************************)
Tok(k, s) == [k |-> k, s |-> s]
Ws == Tok("ws", " ")
LBrace == Tok("punct", "{")
RBrace == Tok("punct", "}")
LBracket == Tok("punct", "[")
RBracket == Tok("punct", "]")
Colon == Tok("punct", ":")
Comma == Tok("punct", ",")
Word(s) == Tok("word", s)

RECURSIVE TrimStart(_)
TrimStart(text) ==
    IF text # <<>> /\ Head(text) = Ws THEN TrimStart(Tail(text)) ELSE text

RECURSIVE TrimEnd(_)
TrimEnd(text) ==
    IF text # <<>> /\ text[Len(text)] = Ws
    THEN TrimEnd(SubSeq(text, 1, Len(text) - 1))
    ELSE text

\* String.prototype.trim
Trim(text) == TrimEnd(TrimStart(text))

\* text.startsWith('{'), text.endsWith('}')
StartsWithBrace(text) == text # <<>> /\ Head(text) = LBrace
EndsWithBrace(text) == text # <<>> /\ text[Len(text)] = RBrace

(***************************************************************************)
(* JSON.parse: a recursive-descent parser of the token sequence.  A parse  *)
(* result is [ok, v, rest]; JSON.parse throws a SyntaxError where ok is    *)
(* FALSE or tokens are left over.                                          *)
(***************************************************************************)
ParseFail == [ok |-> FALSE, v |-> Null, rest |-> <<>>]
Parsed(v, rest) == [ok |-> TRUE, v |-> v, rest |-> rest]

RECURSIVE ParseValue(_), ParseElems(_, _), ParseMembers(_, _)

ParseValue(ts) ==
    IF ts = <<>> THEN ParseFail
    ELSE LET h == Head(ts)
             r == Tail(ts)
         IN  CASE h.k = "lit" ->
                    Parsed(IF h.s = "null" THEN Null ELSE Bool(h.s), r)
               [] h.k = "num" -> Parsed(Num(h.s), r)
               [] h.k = "str" -> Parsed(Str(h.s), r)
               [] h = LBracket ->
                    IF r # <<>> /\ Head(r) = RBracket
                    THEN Parsed(Arr(<<>>), Tail(r))
                    ELSE ParseElems(r, <<>>)
               [] h = LBrace ->
                    IF r # <<>> /\ Head(r) = RBrace
                    THEN Parsed(EmptyObj, Tail(r))
                    ELSE ParseMembers(r, EmptyObj)
               [] OTHER -> ParseFail

\* the elements of an array, after '[' or ','
ParseElems(ts, acc) ==
    LET e == ParseValue(ts)
    IN  IF ~e.ok \/ e.rest = <<>> THEN ParseFail
        ELSE LET sep == Head(e.rest)
                 more == Append(acc, e.v)
             IN  CASE sep = Comma -> ParseElems(Tail(e.rest), more)
                   [] sep = RBracket -> Parsed(Arr(more), Tail(e.rest))
                   [] OTHER -> ParseFail

\* the members of an object, after '{' or ',' ; a repeated key keeps the last value
ParseMembers(ts, acc) ==
    IF Len(ts) < 3 \/ ts[1].k # "str" \/ ts[2] # Colon THEN ParseFail
    ELSE LET e == ParseValue(SubSeq(ts, 3, Len(ts)))
         IN  IF ~e.ok \/ e.rest = <<>> THEN ParseFail
             ELSE LET sep == Head(e.rest)
                      more == SetField(acc, ts[1].s, e.v)
                  IN  CASE sep = Comma -> ParseMembers(Tail(e.rest), more)
                        [] sep = RBrace -> Parsed(more, Tail(e.rest))
                        [] OTHER -> ParseFail

JsonParse(text) ==
    LET r == ParseValue(SelectSeq(text, LAMBDA tk : tk # Ws))
    IN  IF r.ok /\ r.rest = <<>> THEN [ok |-> TRUE, v |-> r.v]
        ELSE [ok |-> FALSE, v |-> Null]

(***************************************************************************)
(* JSON.stringify, as res.json applies it to a response body, read back by *)
(* the client: the named properties of an array are not written.           *)
(***************************************************************************)
RECURSIVE Wire(_)
Wire(v) ==
    CASE v.t = "arr" -> Arr([i \in DOMAIN v.a |-> Wire(v.a[i])])
      [] v.t = "obj" -> Obj([k \in DOMAIN v.o |-> Wire(v.o[k])])
      [] OTHER -> v

(***************************************************************************)
(* The completion stage of analyze-report, after the service has answered  *)
(* (index.js 490-499): an answer without content and an answer that is not *)
(* enclosed in braces are thrown to the stage's catch.                     *)
(***************************************************************************)
\* completion.choices?.[0]?.message?.content of an answer that carries none
NoContent == <<Tok("none", "undefined")>>

EmptyResponse == "Empty response from Groq API"
InvalidStructure == "Invalid JSON structure in API response"

\* AcceptCompletion without the check of the braces
AcceptCompletionUngated(content) ==
    IF content = NoContent \/ content = <<>>
    THEN [threw |-> TRUE, message |-> EmptyResponse, analysis |-> <<>>]
    ELSE [threw |-> FALSE, message |-> "", analysis |-> Trim(content)]

\* [threw, message, analysis]: analysis is the trimmed content
AcceptCompletion(content) ==
    IF content = NoContent \/ content = <<>>
    THEN [threw |-> TRUE, message |-> EmptyResponse, analysis |-> <<>>]
    ELSE LET analysis == Trim(content)
         IN  IF ~StartsWithBrace(analysis) \/ ~EndsWithBrace(analysis)
             THEN [threw |-> TRUE, message |-> InvalidStructure, analysis |-> analysis]
             ELSE [threw |-> FALSE, message |-> "", analysis |-> analysis]

(***************************************************************************)
(* Parsing and validation (index.js 512-539)                               *)
(***************************************************************************)
requiredFields ==
    <<"numericalData", "keyFindings", "recommendations", "urgentConcerns",
      "simplifiedSummary">>
RequiredFieldSet == {requiredFields[i] : i \in DOMAIN requiredFields}

EmptyList == Arr(<<>>)
DefaultNumericalData ==
    Obj([k \in {"metrics", "suggestedVisualizations"} |-> EmptyList])
DefaultSimplifiedSummary ==
    Obj([k \in {"mainPoints", "nextSteps", "medicalTerms"} |-> EmptyList])

\* requiredFields.filter(field => !(field in parsedAnalysis))
missingFields(parsedAnalysis) ==
    SelectSeq(requiredFields, LAMBDA field : ~HasField(parsedAnalysis, field))

\* DefaultField that leaves the object as it is
DefaultFieldKeeps(obj, field, d) == obj

\* obj.field = obj.field || d
DefaultField(obj, field, d) == SetField(obj, field, OrElse(GetField(obj, field), d))

\* EnsureArrays that empties the recommendations when it fills the findings
EnsureArraysResets(parsedAnalysis) ==
    LET nd0 == OrElse(GetField(parsedAnalysis, "numericalData"), DefaultNumericalData)
        nd1 == DefaultField(nd0, "metrics", EmptyList)
        nd2 == DefaultField(nd1, "suggestedVisualizations", EmptyList)
        a1 == SetField(parsedAnalysis, "numericalData", nd2)
        a2 == DefaultField(a1, "keyFindings", EmptyList)
        a3 == IF Truthy(GetField(a1, "keyFindings"))
              THEN DefaultField(a2, "recommendations", EmptyList)
              ELSE SetField(a2, "recommendations", EmptyList)
        a4 == DefaultField(a3, "urgentConcerns", EmptyList)
    IN  DefaultField(a4, "simplifiedSummary", DefaultSimplifiedSummary)

\* EnsureArrays that leaves the sections as they were parsed
EnsureArraysSkips(parsedAnalysis) == parsedAnalysis

\* lines 527-537; numericalData is known to be an object or an array
EnsureArrays(parsedAnalysis) ==
    LET nd0 == OrElse(GetField(parsedAnalysis, "numericalData"), DefaultNumericalData)
        nd1 == DefaultField(nd0, "metrics", EmptyList)
        nd2 == DefaultField(nd1, "suggestedVisualizations", EmptyList)
        a1 == SetField(parsedAnalysis, "numericalData", nd2)
        a2 == DefaultField(a1, "keyFindings", EmptyList)
        a3 == DefaultField(a2, "recommendations", EmptyList)
        a4 == DefaultField(a3, "urgentConcerns", EmptyList)
    IN  DefaultField(a4, "simplifiedSummary", DefaultSimplifiedSummary)

\* the body of the try block: [threw, parsedAnalysis].  It throws when
\* JSON.parse throws, when a required field is missing, and (a TypeError of
\* strict mode) when a property is assigned to a primitive numericalData.
ParseAndValidate(analysis) ==
    LET r == JsonParse(analysis)
        threw == [threw |-> TRUE, parsedAnalysis |-> Undefined]
    IN  IF ~r.ok THEN threw
        ELSE IF ~IsObjectLike(r.v) THEN threw
        ELSE IF Len(missingFields(r.v)) > 0 THEN threw
        ELSE IF ~IsObjectLike(OrElse(GetField(r.v, "numericalData"),
                                     DefaultNumericalData)) THEN threw
        ELSE [threw |-> FALSE, parsedAnalysis |-> EnsureArrays(r.v)]

\* the record built in catch (parseError), lines 545-563
FallbackAnalysis ==
    Obj([k \in RequiredFieldSet |->
        CASE k = "numericalData" -> DefaultNumericalData
          [] k = "keyFindings" ->
               Arr(<<Obj([f \in {"finding", "severity", "category", "explanation"} |->
                       CASE f = "finding" -> Str("Error processing report")
                         [] f = "severity" -> Str("warning")
                         [] f = "category" -> Str("System Error")
                         [] OTHER -> Str("The system encountered an error while analyzing the report. Please try again or contact support.")])>>)
          [] k = "simplifiedSummary" ->
               Obj([f \in {"mainPoints", "nextSteps", "medicalTerms"} |->
                       CASE f = "mainPoints" -> Arr(<<Str("Error in report analysis")>>)
                         [] f = "nextSteps" -> Arr(<<Str("Please try uploading the report again")>>)
                         [] OTHER -> EmptyList])
          [] OTHER -> EmptyList])

FallbackWarning == "Error parsing AI response, showing fallback analysis"

(***************************************************************************)
(* The answers of the completion service.  The service is asked for a JSON *)
(* object of five sections (the prompt, index.js 465-482); the sample      *)
(* documents are that object with up to MaxDeviations sections replaced by *)
(* another value or left out, the texts are their serialisations and a     *)
(* list of malformed answers.                                              *)
(***************************************************************************)
MaxDeviations == 1

Fields(names, val(_)) == Obj([k \in names |-> val(k)])

Metric(status) ==
    Fields({"name", "status"},
           LAMBDA k : IF k = "name" THEN Str("Hemoglobin") ELSE Str(status))
Finding(severity) == Fields({"severity"}, LAMBDA k : Str(severity))
Recommendation == Fields({"priority"}, LAMBDA k : Str("high"))
Advice(priority, timeframe) ==
    Fields({"priority", "timeframe"},
           LAMBDA k : IF k = "priority" THEN Str(priority) ELSE Str(timeframe))
Trending(trend) ==
    Fields({"name", "status", "trend"},
           LAMBDA k : IF k = "name" THEN Str("Glucose")
                      ELSE IF k = "status" THEN Str("normal") ELSE Str(trend))
Visualization(type) == Fields({"type"}, LAMBDA k : Str(type))
Concern == Fields({"concern"}, LAMBDA k : Str("Anemia"))
Summary ==
    Fields({"mainPoints", "nextSteps", "medicalTerms"},
           LAMBDA k : IF k = "mainPoints" THEN Arr(<<Str("Low hemoglobin")>>)
                      ELSE EmptyList)
NumericalData(metrics, visualizations) ==
    Fields({"metrics", "suggestedVisualizations"},
           LAMBDA k : IF k = "metrics" THEN metrics ELSE visualizations)

\* the answer the prompt asks for, with one critical metric
BaseSections ==
    [k \in RequiredFieldSet |->
        CASE k = "numericalData" -> NumericalData(Arr(<<Metric("critical")>>), EmptyList)
          [] k = "keyFindings" -> Arr(<<Finding("critical")>>)
          [] k = "recommendations" -> Arr(<<Recommendation>>)
          [] k = "urgentConcerns" -> Arr(<<Concern>>)
          [] OTHER -> Summary]

\* what a section may hold instead; Undefined stands for a section left out
Deviations(k) ==
    CASE k = "numericalData" ->
            {Undefined, Null, Num("5"), Str(""), EmptyList, EmptyObj,
             NumericalData(Str("n/a"), Null),
             NumericalData(Arr(<<Metric("severe")>>), EmptyList),
             NumericalData(Arr(<<Trending("rising")>>), Arr(<<Visualization("pie")>>))}
      [] k = "keyFindings" ->
            {Undefined, Null, EmptyList, Str("none"), Num("0"), Bool("false"),
             EmptyObj, Arr(<<Finding("warning")>>), Arr(<<Finding("severe")>>)}
      [] k = "recommendations" ->
            {Undefined, Null, EmptyList, Arr(<<Advice("urgent", "immediate")>>),
             Arr(<<Advice("low", "soon")>>)}
      [] k = "urgentConcerns" -> {Undefined, Null, EmptyList, Str("")}
      [] OTHER -> {Undefined, Null, Str("ok"), EmptyObj, EmptyList}

\* the base sections with the sections of D replaced
DeviatingIn(D) ==
    {[k \in RequiredFieldSet |-> IF k \in D THEN c[k] ELSE BaseSections[k]] :
        c \in {d \in [D -> UNION {Deviations(k) : k \in D}] :
                  \A k \in D : d[k] \in Deviations(k)}}

SectionChoices ==
    UNION {DeviatingIn(D) :
             D \in {E \in SUBSET RequiredFieldSet : Cardinality(E) <= MaxDeviations}}

MakeDoc(c) == Obj([k \in {f \in RequiredFieldSet : c[f] # Undefined} |-> c[k]])

BaseDoc == MakeDoc(BaseSections)
SampleDocs == {MakeDoc(c) : c \in SectionChoices}

\* the order in which the service writes the keys of an object
KeyOrder ==
    <<"numericalData", "metrics", "suggestedVisualizations", "keyFindings",
      "recommendations", "urgentConcerns", "simplifiedSummary", "mainPoints",
      "nextSteps", "medicalTerms", "name", "status", "trend", "type", "finding",
      "severity", "category", "explanation", "priority", "timeframe", "concern">>

RECURSIVE Serialize(_), SerializeElems(_, _), SerializeMembers(_, _)

\* the text of a value
Serialize(v) ==
    CASE v.t = "null" -> <<Tok("lit", "null")>>
      [] v.t = "bool" -> <<Tok("lit", v.s)>>
      [] v.t = "num" -> <<Tok("num", v.s)>>
      [] v.t = "str" -> <<Tok("str", v.s)>>
      [] v.t = "arr" -> <<LBracket>> \o SerializeElems(v.a, 1) \o <<RBracket>>
      [] OTHER ->
           <<LBrace>>
           \o SerializeMembers(v.o, SelectSeq(KeyOrder, LAMBDA k : k \in DOMAIN v.o))
           \o <<RBrace>>

SerializeElems(elems, i) ==
    IF i > Len(elems) THEN <<>>
    ELSE Serialize(elems[i])
         \o (IF i < Len(elems) THEN <<Comma>> ELSE <<>>)
         \o SerializeElems(elems, i + 1)

SerializeMembers(fields, keys) ==
    IF keys = <<>> THEN <<>>
    ELSE <<Tok("str", Head(keys)), Colon>> \o Serialize(fields[Head(keys)])
         \o (IF Len(keys) > 1 THEN <<Comma>> ELSE <<>>)
         \o SerializeMembers(fields, Tail(keys))

BaseText == Serialize(BaseDoc)
Prose == <<Word("Sorry"), Ws, Word("unreadable")>>
BracedProse == <<LBrace, Word("unreadable"), RBrace>>
MissingText ==
    Serialize(MakeDoc([BaseSections EXCEPT !["urgentConcerns"] = Undefined]))
NullText ==
    Serialize(MakeDoc([BaseSections EXCEPT !["keyFindings"] = Null]))
SevereText ==
    Serialize(MakeDoc([BaseSections EXCEPT !["numericalData"] =
                          NumericalData(Arr(<<Metric("severe")>>), EmptyList)]))

\* the answer of a service that reports its own failure in the words of the
\* fallback record
EchoText == Serialize(FallbackAnalysis)

\* answers that are no JSON object
MalformedTexts ==
    { Prose,
      BracedProse,
      <<Word("Here"), Ws>> \o BaseText,
      BaseText \o <<Ws, Word("Regards")>>,
      SubSeq(BaseText, 1, Len(BaseText) - 1),
      BaseText \o BaseText,
      <<LBrace, Tok("str", "keyFindings"), Colon, LBracket, RBracket, Comma, RBrace>>,
      <<LBrace, Tok("str", "keyFindings"), Colon, LBracket, RBrace>>,
      <<LBrace, Tok("str", "keyFindings"), LBracket, RBracket, RBrace>>,
      <<LBracket, RBracket>>,
      <<LBrace>>,
      <<LBrace, Ws, RBrace>>,
      <<LBrace, Ws, Tok("str", "keyFindings"), Ws, Colon, Ws, Tok("lit", "null"), Ws, RBrace>>,
      <<Ws, Ws>> }

\* a well-formed answer between white space
PaddedTexts == { <<Ws>> \o BaseText \o <<Ws, Ws>>, <<Ws>> \o NullText }

AllContents ==
    {Serialize(d) : d \in SampleDocs} \cup MalformedTexts \cup PaddedTexts
    \cup {<<>>, NoContent, EchoText}

\* the answers of a service that is used by concurrent requests
FewContents == {BaseText, NullText, SevereText, MissingText, BracedProse, Prose, NoContent}

(***************************************************************************)
(* The server                                                              *)
(***************************************************************************)
MaxRequests == 2     \* requests accepted in one run
MaxFaults == 2       \* external calls that throw in one run
MaxClock == 1        \* readings of Date.now() after the first

fileSize == 5242880        \* limits.fileSize = 5 * 1024 * 1024
reportsLimit == 10         \* .limit(10)

Slots == {1, 2}
Users == {"u1", "u2"}
NoFile == [present |-> FALSE, image |-> FALSE, size |-> 0]
Upload(image, size) == [present |-> TRUE, image |-> image, size |-> size]
Uploads ==
    {NoFile, Upload(TRUE, fileSize), Upload(TRUE, fileSize + 1), Upload(FALSE, 1)}
OcrTexts == {<<>>, <<Ws>>, <<Word("Hemoglobin")>>, <<Ws, Word("Glucose")>>}

VARIABLES
    env,        \* what surrounds the server in this run: [contents, slots, users]
    req,        \* req[r]: the request that runs in slot r
    workers,    \* the ids of the OCR workers that are alive
    spawned,    \* number of workers created so far
    store,      \* the Report collection, in insertion order
    now,        \* Date.now()
    requests,   \* number of requests accepted so far
    faults,     \* number of external calls that have thrown so far
    listing,    \* the last answer of GET /api/reports
    chat        \* the last answer of POST /api/chat

vars == <<env, req, workers, spawned, store, now, requests, faults, listing, chat>>

NoReport == [originalText |-> <<>>, summary |-> <<>>, analysis |-> Undefined, createdAt |-> 0]
NoCalls == [createWorker |-> 0, recognize |-> 0, terminate |-> 0, complete |-> 0, save |-> 0]

\* a slot without a request.  caller and file come with the request, content
\* is what the completion service answered to it; the other fields are the
\* handler's local variables.
IdleReq ==
    [pc |-> "idle", caller |-> "", file |-> NoFile, content |-> NoContent,
     worker |-> 0, text |-> <<>>, ocrError |-> "", analysis |-> <<>>,
     parsedAnalysis |-> Undefined, report |-> NoReport, saved |-> "no",
     calls |-> NoCalls, res |-> <<>>]

\* res.status(status).json(body); the handler returns or ends after it
Send(q, status, body) ==
    [q EXCEPT !.pc = "done", !.res = Append(@, [status |-> status, body |-> body])]

Failure(error) == [success |-> FALSE, error |-> error]
FailureDetails(error, details) ==
    [success |-> FALSE, error |-> error, details |-> details]

\* UploadError of a multer without fileFilter and limits
UploadErrorNone(file) == ""

\* multer: fileFilter (lines 294-299) and limits.fileSize (line 292)
UploadError(file) ==
    IF ~file.present THEN ""
    ELSE IF ~file.image THEN "Only image files are allowed!"
    ELSE IF file.size > fileSize THEN "File too large"
    ELSE ""

\* the error handling middleware (lines 667-674)
ErrorMiddleware(q, message) ==
    Send(q, 500, [error |-> "Something went wrong!", details |-> message])

\* catch (error) of the handler (lines 594-602)
UnhandledError(q, message) ==
    Send(q, 500, FailureDetails("Error processing report", message))

\* the request arrives: upload.single('report'), the file check (396-401)
\* and the call of createWorker (412)
Free(r) == r \in env.slots /\ req[r].pc \in {"idle", "done"}

Arrive(r) ==
    /\ Free(r)
    /\ \A other \in Slots : Free(other) => r <= other
    /\ requests < MaxRequests
    /\ requests' = requests + 1
    /\ \E caller \in env.users, file \in Uploads :
          LET q == [IdleReq EXCEPT !.caller = caller, !.file = file]
          IN  req' = [req EXCEPT ![r] =
                  IF UploadError(file) # "" THEN ErrorMiddleware(q, UploadError(file))
                  ELSE IF ~file.present THEN Send(q, 400, Failure("No file uploaded"))
                  ELSE [q EXCEPT !.pc = "createWorker", !.calls.createWorker = @ + 1]]
    /\ UNCHANGED <<env, workers, spawned, store, now, faults, listing, chat>>

\* CreateWorkerReturns of a handler that keeps one worker for all requests
CreateWorkerReturnsShared(r) ==
    /\ req[r].pc = "createWorker"
    /\ spawned' = spawned + 1
    /\ workers' = workers \cup {1}
    /\ req' = [req EXCEPT ![r].worker = 1, ![r].pc = "recognize",
                          ![r].calls.recognize = @ + 1]
    /\ UNCHANGED <<env, store, now, requests, faults, listing, chat>>

\* createWorker() returns; worker.recognize is called (426)
CreateWorkerReturns(r) ==
    /\ req[r].pc = "createWorker"
    /\ spawned' = spawned + 1
    /\ workers' = workers \cup {spawned'}
    /\ req' = [req EXCEPT ![r].worker = spawned', ![r].pc = "recognize",
                          ![r].calls.recognize = @ + 1]
    /\ UNCHANGED <<env, store, now, requests, faults, listing, chat>>

\* createWorker() throws (414-421)
CreateWorkerThrows(r) ==
    /\ req[r].pc = "createWorker"
    /\ faults < MaxFaults
    /\ faults' = faults + 1
    /\ req' = [req EXCEPT ![r] =
          Send(@, 500, FailureDetails("Failed to initialize text recognition",
                                      "createWorker failed"))]
    /\ UNCHANGED <<env, workers, spawned, store, now, requests, listing, chat>>

\* worker.recognize returns; worker.terminate is called (427-429)
RecognizeReturns(r) ==
    /\ req[r].pc = "recognize"
    /\ \E text \in OcrTexts :
          req' = [req EXCEPT ![r].text = text, ![r].pc = "terminate",
                             ![r].calls.terminate = @ + 1]
    /\ UNCHANGED <<env, workers, spawned, store, now, requests, faults, listing, chat>>

\* worker.recognize throws; the catch calls worker.terminate (430-432)
RecognizeThrows(r) ==
    /\ req[r].pc = "recognize"
    /\ faults < MaxFaults
    /\ faults' = faults + 1
    /\ req' = [req EXCEPT ![r].ocrError = "recognize failed", ![r].pc = "terminateCatch",
                          ![r].calls.terminate = @ + 1]
    /\ UNCHANGED <<env, workers, spawned, store, now, requests, listing, chat>>

\* AfterExtraction without the empty-text check
AfterExtractionContinues(q) == [q EXCEPT !.pc = "complete", !.calls.complete = @ + 1]

\* after the try block: the empty-text check (440-445) and the call of the
\* completion service (450)
AfterExtraction(q) ==
    IF ~(q.text # <<>>) \/ Len(Trim(q.text)) = 0
    THEN Send(q, 400, Failure("No text could be extracted from the image"))
    ELSE [q EXCEPT !.pc = "complete", !.calls.complete = @ + 1]

\* TerminateReturns of a handler that does not await worker.terminate
TerminateReturnsDetached(r) ==
    /\ req[r].pc = "terminate"
    /\ req' = [req EXCEPT ![r] = AfterExtraction(@)]
    /\ UNCHANGED <<env, workers, spawned, store, now, requests, faults, listing, chat>>

\* worker.terminate of the try block returns (429)
TerminateReturns(r) ==
    /\ req[r].pc = "terminate"
    /\ workers' = workers \ {req[r].worker}
    /\ req' = [req EXCEPT ![r] = AfterExtraction(@)]
    /\ UNCHANGED <<env, spawned, store, now, requests, faults, listing, chat>>

\* worker.terminate of the try block throws: the catch takes it as the OCR
\* error and calls worker.terminate again (430-432)
TerminateThrows(r) ==
    /\ req[r].pc = "terminate"
    /\ faults < MaxFaults
    /\ faults' = faults + 1
    /\ req' = [req EXCEPT ![r].ocrError = "terminate failed", ![r].pc = "terminateCatch",
                          ![r].calls.terminate = @ + 1]
    /\ UNCHANGED <<env, workers, spawned, store, now, requests, listing, chat>>

\* TerminateCatchReturns of a catch block that does not terminate the worker
TerminateCatchReturnsKeeps(r) ==
    /\ req[r].pc = "terminateCatch"
    /\ req' = [req EXCEPT ![r] =
          Send(@, 500, FailureDetails("Failed to process image", @.ocrError))]
    /\ UNCHANGED <<env, workers, spawned, store, now, requests, faults, listing, chat>>

\* worker.terminate of the catch block returns (432-437)
TerminateCatchReturns(r) ==
    /\ req[r].pc = "terminateCatch"
    /\ workers' = workers \ {req[r].worker}
    /\ req' = [req EXCEPT ![r] =
          Send(@, 500, FailureDetails("Failed to process image", @.ocrError))]
    /\ UNCHANGED <<env, spawned, store, now, requests, faults, listing, chat>>

\* worker.terminate of the catch block throws: the handler's catch (594-602)
TerminateCatchThrows(r) ==
    /\ req[r].pc = "terminateCatch"
    /\ faults < MaxFaults
    /\ faults' = faults + 1
    /\ req' = [req EXCEPT ![r] = UnhandledError(@, "terminate failed")]
    /\ UNCHANGED <<env, workers, spawned, store, now, requests, listing, chat>>

(***************************************************************************)
(* The Report model (reportSchema, lines 323-390)                          *)
(***************************************************************************)
StatusEnum == {"normal", "warning", "critical"}
TrendEnum == {"increasing", "decreasing", "stable"}
VisualizationEnum == {"graph", "chart", "gauge"}
PriorityEnum == {"high", "medium", "low"}
TimeframeEnum == {"immediate", "short-term", "long-term"}

\* the validator of an enum path: an absent value passes
EnumValid(item, field, allowed) ==
    LET x == GetField(item, field)
    IN  x.t \in {"undef", "null"} \/ (x.t = "str" /\ x.s \in allowed)

\* an array of subdocuments whose enum paths validate; no path is required,
\* so an absent or null array passes
SubdocsValid(v, enums) ==
    \/ v.t \in {"undef", "null"}
    \/ /\ v.t = "arr"
       /\ \A i \in DOMAIN v.a :
             /\ v.a[i].t = "obj"
             /\ \A e \in enums : EnumValid(v.a[i], e[1], e[2])

ListOrAbsent(v) == v.t \in {"undef", "null", "arr"}

\* SchemaValid of a schema without validators
SchemaValidAny(analysis) == TRUE

\* whether a document with this analysis passes the validation that save() runs
SchemaValid(analysis) ==
    LET nd == GetField(analysis, "numericalData")
        ss == GetField(analysis, "simplifiedSummary")
    IN  /\ nd.t \in {"undef", "null", "obj"}
        /\ SubdocsValid(GetField(nd, "metrics"),
                        {<<"status", StatusEnum>>, <<"trend", TrendEnum>>})
        /\ SubdocsValid(GetField(nd, "suggestedVisualizations"),
                        {<<"type", VisualizationEnum>>})
        /\ SubdocsValid(GetField(analysis, "keyFindings"), {<<"severity", StatusEnum>>})
        /\ SubdocsValid(GetField(analysis, "recommendations"),
                        {<<"priority", PriorityEnum>>, <<"timeframe", TimeframeEnum>>})
        /\ SubdocsValid(GetField(analysis, "urgentConcerns"), {})
        /\ ss.t \in {"undef", "null", "obj"}
        /\ \A k \in {"mainPoints", "nextSteps", "medicalTerms"} :
              ListOrAbsent(GetField(ss, k))

\* new Report({originalText: text, summary: analysis, analysis: parsedAnalysis}):
\* the paths of the schema; createdAt defaults to Date.now
\* NewReport that stores the trimmed text
NewReportTrimmed(q, time) ==
    [originalText |-> Trim(q.text), summary |-> q.analysis, analysis |-> q.parsedAnalysis,
     createdAt |-> time]

NewReport(q, time) ==
    [originalText |-> q.text, summary |-> q.analysis, analysis |-> q.parsedAnalysis,
     createdAt |-> time]

(***************************************************************************)
(* The completion, parse and save stages                                   *)
(***************************************************************************)
\* OkBody that is annotated with the warning
OkBodyWarns(q) ==
    [success |-> TRUE, text |-> q.text, analysis |-> Wire(q.parsedAnalysis),
     warning |-> FallbackWarning]

OkBody(q) == [success |-> TRUE, text |-> q.text, analysis |-> Wire(q.parsedAnalysis)]

\* ParseFallback that aborts the request
ParseFallbackAborts(q) ==
    Send(q, 500, FailureDetails("Failed to analyze report", "parse failed"))

\* catch (parseError), lines 540-572: the fallback is answered at once
ParseFallback(q) ==
    LET f == [q EXCEPT !.parsedAnalysis = FallbackAnalysis]
    IN  Send(f, 200, [success |-> TRUE, text |-> f.text,
                      analysis |-> Wire(f.parsedAnalysis),
                      warning |-> FallbackWarning])

\* ParseStage that answers a validated analysis without a Report
ParseStageSkipsSave(q, time) ==
    LET p == ParseAndValidate(q.analysis)
    IN  IF p.threw THEN ParseFallback(q)
        ELSE Send([q EXCEPT !.parsedAnalysis = p.parsedAnalysis], 200,
                  OkBody([q EXCEPT !.parsedAnalysis = p.parsedAnalysis]))

\* lines 512-581, up to the call of report.save()
ParseStage(q, time) ==
    LET p == ParseAndValidate(q.analysis)
    IN  IF p.threw THEN ParseFallback(q)
        ELSE LET v == [q EXCEPT !.parsedAnalysis = p.parsedAnalysis]
             IN  [v EXCEPT !.report = NewReport(v, time), !.pc = "save",
                           !.calls.save = @ + 1]

\* CompletionFailure that is absorbed like a parse error
CompletionFailureAbsorbed(q, message) == ParseFallback(q)

\* catch (groqError), lines 503-510
CompletionFailure(q, message) ==
    Send(q, 500, FailureDetails("Failed to analyze report", message))

\* lines 490-510 and what follows them, once the service has answered
CompletionStage(q, content, time) ==
    LET a == AcceptCompletion(content)
        c == [q EXCEPT !.content = content, !.analysis = a.analysis]
    IN  IF a.threw THEN CompletionFailure(c, a.message)
        ELSE ParseStage(c, time)

\* groq.chat.completions.create returns
CompletionReturns(r) ==
    /\ req[r].pc = "complete"
    /\ \E content \in env.contents :
          req' = [req EXCEPT ![r] = CompletionStage(@, content, now)]
    /\ UNCHANGED <<env, workers, spawned, store, now, requests, faults, listing, chat>>

\* groq.chat.completions.create throws
CompletionThrows(r) ==
    /\ req[r].pc = "complete"
    /\ faults < MaxFaults
    /\ faults' = faults + 1
    /\ req' = [req EXCEPT ![r] = CompletionFailure(@, "completion failed")]
    /\ UNCHANGED <<env, workers, spawned, store, now, requests, listing, chat>>

\* Respond that reports a failure
RespondFails(q) ==
    Send([q EXCEPT !.report = NoReport], 500, Failure("Error processing report"))

\* lines 588-592
Respond(q) == Send([q EXCEPT !.report = NoReport], 200, OkBody(q))

\* what report.save() inserts, with the caller of the request beside it
Inserted(q) == [doc |-> q.report, by |-> q.caller]

\* SaveReturns of a save() that overwrites the collection
SaveReturnsReplaces(r) ==
    /\ req[r].pc = "save"
    /\ SchemaValid(req[r].report.analysis)
    /\ store' = <<Inserted(req[r])>>
    /\ req' = [req EXCEPT ![r] = Respond([@ EXCEPT !.saved = "yes"])]
    /\ UNCHANGED <<env, workers, spawned, now, requests, faults, listing, chat>>

\* report.save() returns (581-592)
SaveReturns(r) ==
    /\ req[r].pc = "save"
    /\ SchemaValid(req[r].report.analysis)
    /\ store' = Append(store, Inserted(req[r]))
    /\ req' = [req EXCEPT ![r] = Respond([@ EXCEPT !.saved = "yes"])]
    /\ UNCHANGED <<env, workers, spawned, now, requests, faults, listing, chat>>

\* AfterSaveError that calls report.save() again
AfterSaveErrorRetries(q) == [q EXCEPT !.saved = "failed", !.calls.save = @ + 1]

\* AfterSaveError that lets the error reach the outer catch
AfterSaveErrorFails(q) ==
    Send([q EXCEPT !.saved = "failed", !.report = NoReport], 500,
         Failure("Error processing report"))

\* after catch (dbError), lines 583-592
\* AfterSaveError of a catch block that answers and falls through to res.json
AfterSaveErrorAnswers(q) ==
    Respond(UnhandledError([q EXCEPT !.saved = "failed"], "save failed"))

AfterSaveError(q) == Respond([q EXCEPT !.saved = "failed"])

\* report.save() throws: the validation fails, or the database does
SaveThrows(r) ==
    /\ req[r].pc = "save"
    /\ \/ ~SchemaValid(req[r].report.analysis) /\ faults' = faults
       \/ faults < MaxFaults /\ faults' = faults + 1
    /\ req' = [req EXCEPT ![r] = AfterSaveError(@)]
    /\ UNCHANGED <<env, workers, spawned, store, now, requests, listing, chat>>

(***************************************************************************)
(* GET /api/reports (lines 605-613)                                        *)
(***************************************************************************)
\* d among docs that are sorted by createdAt, newest first; documents of the
\* same createdAt come in either order
RECURSIVE InsertSorted(_, _, _)
InsertSorted(d, docs, tie) ==
    IF docs = <<>> THEN <<d>>
    ELSE IF \/ Head(docs).doc.createdAt < d.doc.createdAt
            \/ tie /\ Head(docs).doc.createdAt = d.doc.createdAt
         THEN <<d>> \o docs
         ELSE <<Head(docs)>> \o InsertSorted(d, Tail(docs), tie)

\* .sort({ createdAt: -1 })
RECURSIVE SortByCreatedAt(_, _)
SortByCreatedAt(docs, tie) ==
    IF docs = <<>> THEN <<>>
    ELSE InsertSorted(docs[Len(docs)], SortByCreatedAt(SubSeq(docs, 1, Len(docs) - 1), tie),
                      tie)

\* .limit(n)
Limit(docs, n) == SubSeq(docs, 1, IF Len(docs) < n THEN Len(docs) ELSE n)

\* ReportsQuery in the order of insertion
ReportsQueryUnsorted(caller, docs, tie) == Limit(docs, reportsLimit)

\* Report.find().sort({ createdAt: -1 }).limit(10), asked by caller
ReportsQuery(caller, docs, tie) == Limit(SortByCreatedAt(docs, tie), reportsLimit)

\* seen: the number of Reports in the collection when it was queried
NoListing == [caller |-> "", status |-> 0, reports |-> <<>>, seen |-> 0]

Reports(caller) ==
    /\ requests < MaxRequests
    /\ requests' = requests + 1
    /\ \E tie \in BOOLEAN :
          listing' = [caller |-> caller, status |-> 200,
                      reports |-> ReportsQuery(caller, store, tie),
                      seen |-> Len(store)]
    /\ UNCHANGED <<env, req, workers, spawned, store, now, faults, chat>>

\* Report.find() throws
ReportsThrows(caller) ==
    /\ requests < MaxRequests
    /\ requests' = requests + 1
    /\ faults < MaxFaults
    /\ faults' = faults + 1
    /\ listing' = [caller |-> caller, status |-> 500, reports |-> <<>>,
                   seen |-> Len(store)]
    /\ UNCHANGED <<env, req, workers, spawned, store, now, chat>>

(***************************************************************************)
(* POST /api/chat (lines 621-665).  The handler shares no state with the   *)
(* other routes, so its await is not a separate step.                      *)
(***************************************************************************)
NoChat == [status |-> 0, body |-> [success |-> FALSE]]
Messages == {<<>>, <<Word("What is anemia?")>>}
Replies == {NoContent, <<>>, <<Word("A low red blood cell count.")>>}
ChatDefault == <<Word("Sorry, I couldn't process your request.")>>

\* the answer to message when the completion service returns reply
ChatAnswer(message, reply) ==
    IF message = <<>>
    THEN [status |-> 400, body |-> Failure("Message is required")]
    ELSE [status |-> 200,
          body |-> [success |-> TRUE,
                    response |-> IF reply \in {NoContent, <<>>} THEN ChatDefault
                                 ELSE reply]]

Chat ==
    /\ requests < MaxRequests
    /\ requests' = requests + 1
    /\ \E message \in Messages, reply \in Replies : chat' = ChatAnswer(message, reply)
    /\ UNCHANGED <<env, req, workers, spawned, store, now, faults, listing>>

\* groq.chat.completions.create throws: catch (error), lines 657-664
ChatThrows ==
    /\ requests < MaxRequests
    /\ requests' = requests + 1
    /\ faults < MaxFaults
    /\ faults' = faults + 1
    /\ chat' = [status |-> 500,
                body |-> [success |-> FALSE, error |-> "Error processing chat message",
                          response |-> <<Word("Sorry, there was an error with the chatbot. Please try again later.")>>]]
    /\ UNCHANGED <<env, req, workers, spawned, store, now, listing>>

\* time passes
Tick ==
    /\ now < MaxClock
    /\ now' = now + 1
    /\ UNCHANGED <<env, req, workers, spawned, store, requests, faults, listing, chat>>

(***************************************************************************)
(* The earlier definitions of analyze-report: src/unnamed/part_000 lines   *)
(* 149-278 (variant "json") and src/server/index.js lines 95-168 (variant  *)
(* "text").  Both run createWorker, recognize and terminate in the one try *)
(* block of the handler; they differ in how the completion is parsed.      *)
(***************************************************************************)
Variants == {"json", "text"}
Nl == Tok("nl", "\n")
Nl2 == Tok("nl", "\n\n")
Dash == Tok("word", "- ")
Text(tokens) == [t |-> "text", a |-> tokens]

\* an answer in the four sections the prompt of lines 117-123 asks for
PlainAnswer ==
    <<Dash, Word("Low hemoglobin"), Nl, Dash, Word("Low ferritin"), Nl2,
      Word("Recommendations"), Nl, Dash, Word("Iron supplements"), Nl2,
      Word("None"), Nl2, Word("Your blood carries less oxygen than usual.")>>
LegacyContents(variant) ==
    IF variant = "json" THEN {BaseText, SevereText, Prose, NoContent}
    ELSE {PlainAnswer, Prose, NoContent}

\* text.split(sep)
RECURSIVE SplitOn(_, _, _)
SplitOn(text, sep, part) ==
    IF text = <<>> THEN <<part>>
    ELSE IF Head(text) = sep THEN <<part>> \o SplitOn(Tail(text), sep, <<>>)
    ELSE SplitOn(Tail(text), sep, Append(part, Head(text)))

\* sections[i]?.split('\n').filter(line => line.startsWith('-'))
\*             .map(line => line.substring(2))
Bullets(sections, i) ==
    IF i > Len(sections) THEN Undefined
    ELSE LET lines == SplitOn(sections[i], Nl, <<>>)
             marked == SelectSeq(lines, LAMBDA l : l # <<>> /\ Head(l) = Dash)
         IN  Arr([k \in DOMAIN marked |-> Text(Tail(marked[k]))])

\* index.js 131-140; analysis.split throws when there is no content
SectionsOf(content) ==
    IF content = NoContent THEN [threw |-> TRUE, parsedAnalysis |-> Undefined]
    ELSE LET sections == SplitOn(content, Nl2, <<>>)
         IN  [threw |-> FALSE,
              parsedAnalysis |->
                  Obj([k \in {"keyFindings", "recommendations", "urgentConcerns",
                              "simplifiedExplanation"} |->
                      CASE k = "keyFindings" -> Bullets(sections, 1)
                        [] k = "recommendations" -> Bullets(sections, 2)
                        [] k = "urgentConcerns" -> Bullets(sections, 3)
                        [] OTHER -> IF Len(sections) >= 4 THEN Text(sections[4])
                                    ELSE Undefined])]

\* part_000 247-250: JSON.parse(analysis)
LegacyParse(variant, content) ==
    IF variant = "text" THEN SectionsOf(content)
    ELSE LET r == JsonParse(content)
         IN  [threw |-> ~r.ok, parsedAnalysis |-> IF r.ok THEN r.v ELSE Undefined]

\* the validation of save(): the schema of index.js 80-90 has no validator,
\* that of part_000 80-144 is the schema of the Report model above
LegacySchemaValid(variant, analysis) ==
    variant = "text" \/ (analysis.t = "obj" /\ SchemaValid(analysis))

\* catch (error) of the handler: part_000 271-277, index.js 161-167
LegacyError(q, message) ==
    Send(q, 500, [error |-> "Error processing report", details |-> message])

\* the request arrives; createWorker is called (part_000 151-156)
LegacyArrive(r) ==
    /\ Free(r)
    /\ \A other \in Slots : Free(other) => r <= other
    /\ requests < MaxRequests
    /\ requests' = requests + 1
    /\ \E caller \in env.users, file \in Uploads :
          LET q == [IdleReq EXCEPT !.caller = caller, !.file = file]
          IN  req' = [req EXCEPT ![r] =
                  IF UploadError(file) # "" THEN ErrorMiddleware(q, UploadError(file))
                  ELSE IF ~file.present THEN Send(q, 400, [error |-> "No file uploaded"])
                  ELSE [q EXCEPT !.pc = "createWorker", !.calls.createWorker = @ + 1]]
    /\ UNCHANGED <<env, workers, spawned, store, now, faults, listing, chat>>

\* createWorker() throws
LegacyCreateWorkerThrows(r) ==
    /\ req[r].pc = "createWorker"
    /\ faults < MaxFaults
    /\ faults' = faults + 1
    /\ req' = [req EXCEPT ![r] = LegacyError(@, "createWorker failed")]
    /\ UNCHANGED <<env, workers, spawned, store, now, requests, listing, chat>>

\* worker.recognize throws: the handler's catch answers, and nothing
\* terminates the worker (part_000 159-160, 271-277)
LegacyRecognizeThrows(r) ==
    /\ req[r].pc = "recognize"
    /\ faults < MaxFaults
    /\ faults' = faults + 1
    /\ req' = [req EXCEPT ![r] =
          LegacyError([@ EXCEPT !.ocrError = "recognize failed"], "recognize failed")]
    /\ UNCHANGED <<env, workers, spawned, store, now, requests, listing, chat>>

\* worker.terminate returns; the completion service is called (part_000 160-163)
LegacyTerminateReturns(r) ==
    /\ req[r].pc = "terminate"
    /\ workers' = workers \ {req[r].worker}
    /\ req' = [req EXCEPT ![r].pc = "complete", ![r].calls.complete = @ + 1]
    /\ UNCHANGED <<env, spawned, store, now, requests, faults, listing, chat>>

\* worker.terminate throws
LegacyTerminateThrows(r) ==
    /\ req[r].pc = "terminate"
    /\ faults < MaxFaults
    /\ faults' = faults + 1
    /\ req' = [req EXCEPT ![r] =
          LegacyError([@ EXCEPT !.ocrError = "terminate failed"], "terminate failed")]
    /\ UNCHANGED <<env, workers, spawned, store, now, requests, listing, chat>>

\* the completion service returns; the answer is parsed and save() is called
\* (part_000 247-259, index.js 131-149)
LegacyCompletionReturns(r) ==
    /\ req[r].pc = "complete"
    /\ \E content \in env.contents :
          LET p == LegacyParse(env.variant, content)
              c == [req[r] EXCEPT !.content = content, !.analysis = content]
              v == [c EXCEPT !.parsedAnalysis = p.parsedAnalysis]
          IN  req' = [req EXCEPT ![r] =
                  IF p.threw THEN LegacyError(c, "parse failed")
                  ELSE [v EXCEPT !.report = NewReport(v, now), !.pc = "save",
                                 !.calls.save = @ + 1]]
    /\ UNCHANGED <<env, workers, spawned, store, now, requests, faults, listing, chat>>

\* the completion service throws
LegacyCompletionThrows(r) ==
    /\ req[r].pc = "complete"
    /\ faults < MaxFaults
    /\ faults' = faults + 1
    /\ req' = [req EXCEPT ![r] = LegacyError(@, "completion failed")]
    /\ UNCHANGED <<env, workers, spawned, store, now, requests, listing, chat>>

\* report.save() returns (part_000 259-269)
LegacySaveReturns(r) ==
    /\ req[r].pc = "save"
    /\ LegacySchemaValid(env.variant, req[r].report.analysis)
    /\ store' = Append(store, Inserted(req[r]))
    /\ req' = [req EXCEPT ![r] = Respond([@ EXCEPT !.saved = "yes"])]
    /\ UNCHANGED <<env, workers, spawned, now, requests, faults, listing, chat>>

\* report.save() throws (part_000 260-269)
LegacySaveThrows(r) ==
    /\ req[r].pc = "save"
    /\ \/ ~LegacySchemaValid(env.variant, req[r].report.analysis) /\ faults' = faults
       \/ faults < MaxFaults /\ faults' = faults + 1
    /\ req' = [req EXCEPT ![r] = AfterSaveError(@)]
    /\ UNCHANGED <<env, workers, spawned, store, now, requests, listing, chat>>

(***************************************************************************)
(* Specifications                                                          *)
(***************************************************************************)
Start(e, reports) ==
    /\ env = e
    /\ req = [r \in Slots |-> IdleReq]
    /\ workers = {}
    /\ spawned = 0
    /\ store = reports
    /\ now = 0
    /\ requests = 0
    /\ faults = 0
    /\ listing = NoListing
    /\ chat = NoChat

\* concurrent requests of two users, on an empty collection
Init == Start([contents |-> FewContents, slots |-> Slots, users |-> Users], <<>>)

\* one request at a time, with every sample answer of the completion service
InitNormalizer == Start([contents |-> AllContents, slots |-> {1}, users |-> {"u1"}], <<>>)

\* a collection that already holds reportsLimit Reports, saved by earlier
\* requests of the two users; two of them were saved out of their order of
\* creation, as overlapping requests do
EarlierReport(i) ==
    [doc |-> [originalText |-> <<Word("Hemoglobin")>>, summary |-> BaseText,
              analysis |-> EnsureArrays(BaseDoc),
              createdAt |-> IF i \in {3, 8} THEN (i \div 4) - 2 ELSE ((i - 1) \div 4) - 3],
     by |-> IF i % 2 = 0 THEN "u1" ELSE "u2"]
EarlierReports == [i \in 1..reportsLimit |-> EarlierReport(i)]

InitHistory ==
    Start([contents |-> {BaseText}, slots |-> Slots, users |-> Users], EarlierReports)

Next ==
    \/ \E r \in Slots :
          \/ Arrive(r)
          \/ CreateWorkerReturns(r)
          \/ CreateWorkerThrows(r)
          \/ RecognizeReturns(r)
          \/ RecognizeThrows(r)
          \/ TerminateReturns(r)
          \/ TerminateThrows(r)
          \/ TerminateCatchReturns(r)
          \/ TerminateCatchThrows(r)
          \/ CompletionReturns(r)
          \/ CompletionThrows(r)
          \/ SaveReturns(r)
          \/ SaveThrows(r)
    \/ \E caller \in env.users : Reports(caller) \/ ReportsThrows(caller)
    \/ Chat
    \/ ChatThrows
    \/ Tick

Spec == Init /\ [][Next]_vars
SpecNormalizer == InitNormalizer /\ [][Next]_vars
SpecHistory == InitHistory /\ [][Next]_vars

\* a step of the handler of request r after its arrival: an awaited call
\* returns or throws
Handle(r) ==
    \/ CreateWorkerReturns(r)
    \/ CreateWorkerThrows(r)
    \/ RecognizeReturns(r)
    \/ RecognizeThrows(r)
    \/ TerminateReturns(r)
    \/ TerminateThrows(r)
    \/ TerminateCatchReturns(r)
    \/ TerminateCatchThrows(r)
    \/ CompletionReturns(r)
    \/ CompletionThrows(r)
    \/ SaveReturns(r)
    \/ SaveThrows(r)

\* every awaited call of every request settles
SpecSettling == Spec /\ \A r \in Slots : WF_vars(Handle(r))

\* the earlier handlers, one variant in a run, with concurrent requests
InitLegacy ==
    \E variant \in Variants :
        Start([contents |-> LegacyContents(variant), slots |-> Slots, users |-> {"u1"},
               variant |-> variant], <<>>)

NextLegacy ==
    \E r \in Slots :
        \/ LegacyArrive(r)
        \/ CreateWorkerReturns(r)
        \/ LegacyCreateWorkerThrows(r)
        \/ RecognizeReturns(r)
        \/ LegacyRecognizeThrows(r)
        \/ LegacyTerminateReturns(r)
        \/ LegacyTerminateThrows(r)
        \/ LegacyCompletionReturns(r)
        \/ LegacyCompletionThrows(r)
        \/ LegacySaveReturns(r)
        \/ LegacySaveThrows(r)

SpecLegacy == InitLegacy /\ [][NextLegacy]_vars

(***************************************************************************)
(* Properties                                                              *)
(***************************************************************************)
Done(r) == req[r].pc = "done"
\* the response of a finished request
Answer(r) == req[r].res[Len(req[r].res)]
HasAnalysis(r) == "analysis" \in DOMAIN Answer(r).body
HasWarning(r) == "warning" \in DOMAIN Answer(r).body

\* the completion service answered the request with a non-empty text
TextAnswer(r) == Done(r) /\ req[r].content # NoContent /\ req[r].content # <<>>
Enclosed(text) == StartsWithBrace(Trim(text)) /\ EndsWithBrace(Trim(text))
\* ... with a text that parses to a JSON object
ParsedObject(r) ==
    /\ TextAnswer(r)
    /\ JsonParse(req[r].content).ok
    /\ JsonParse(req[r].content).v.t = "obj"
GivenDoc(r) == JsonParse(req[r].content).v

IsList(v) == v.t = "arr"
Section(a, k) == GetField(a, k)
Sub(a, k, f) == GetField(GetField(a, k), f)

\* the five sections, typed as the schema types them
WellTyped(a) ==
    /\ a.t = "obj"
    /\ RequiredFieldSet \subseteq DOMAIN a.o
    /\ IsList(Section(a, "keyFindings"))
    /\ IsList(Section(a, "recommendations"))
    /\ IsList(Section(a, "urgentConcerns"))
    /\ Section(a, "numericalData").t = "obj"
    /\ IsList(Sub(a, "numericalData", "metrics"))
    /\ IsList(Sub(a, "numericalData", "suggestedVisualizations"))
    /\ Section(a, "simplifiedSummary").t = "obj"

\* C1: every analysis that analyze-report returns holds the five sections
\* numericalData, keyFindings, recommendations, urgentConcerns and
\* simplifiedSummary, with keyFindings, recommendations, urgentConcerns,
\* numericalData.metrics and numericalData.suggestedVisualizations lists and
\* simplifiedSummary an object, whatever the completion service answered.
C1_Totality ==
    \A r \in Slots :
        Done(r) /\ HasAnalysis(r) => WellTyped(Answer(r).body.analysis)

\* the content of the documented fallback record
IsFallback(a) ==
    /\ a.t = "obj"
    /\ DOMAIN a.o = RequiredFieldSet
    /\ IsList(Section(a, "keyFindings"))
    /\ Len(Section(a, "keyFindings").a) = 1
    /\ GetField(Section(a, "keyFindings").a[1], "severity") = Str("warning")
    /\ Sub(a, "numericalData", "metrics") = EmptyList
    /\ Sub(a, "numericalData", "suggestedVisualizations") = EmptyList
    /\ Section(a, "recommendations") = EmptyList
    /\ Section(a, "urgentConcerns") = EmptyList
    /\ Sub(a, "simplifiedSummary", "medicalTerms") = EmptyList
    /\ IsList(Sub(a, "simplifiedSummary", "mainPoints"))
    /\ Len(Sub(a, "simplifiedSummary", "mainPoints").a) = 1
    /\ IsList(Sub(a, "simplifiedSummary", "nextSteps"))
    /\ Len(Sub(a, "simplifiedSummary", "nextSteps").a) = 1

\* status 200, success true, a warning and the fallback analysis
DegradedAnswer(r) ==
    /\ Len(req[r].res) = 1
    /\ Answer(r).status = 200
    /\ DOMAIN Answer(r).body = {"success", "text", "analysis", "warning"}
    /\ Answer(r).body.success = TRUE
    /\ Answer(r).body.text = req[r].text
    /\ IsFallback(Answer(r).body.analysis)

C3_UnparsableDegrades ==
    \A r \in Slots :
        /\ TextAnswer(r)
        /\ Enclosed(req[r].content)
        /\ ~JsonParse(req[r].content).ok
        => DegradedAnswer(r)

C3_Witness ==
    \E r \in Slots :
        /\ TextAnswer(r)
        /\ Enclosed(req[r].content)
        /\ ~JsonParse(req[r].content).ok
        /\ HasWarning(r)

\* the default of a section
SectionDefault(k) ==
    CASE k = "numericalData" -> DefaultNumericalData
      [] k = "simplifiedSummary" -> DefaultSimplifiedSummary
      [] OTHER -> EmptyList

Absent(v) == v.t \in {"undef", "null"}

\* a success that is not degraded
PlainSuccess(r) ==
    /\ Len(req[r].res) = 1
    /\ Answer(r).status = 200
    /\ DOMAIN Answer(r).body = {"success", "text", "analysis"}
    /\ Answer(r).body.success = TRUE

Validates(doc) ==
    /\ RequiredFieldSet \subseteq DOMAIN doc.o
    /\ Truthy(Section(doc, "numericalData")) => IsObjectLike(Section(doc, "numericalData"))

ExpectedAnswer(q) ==
    [status |-> 200,
     body |-> [success |-> TRUE, text |-> q.text,
               analysis |-> Wire(ParseAndValidate(Trim(q.content)).parsedAnalysis)]]

\* C6: a request whose report.save() returned or threw is answered once, with
\* status 200 and the body that its recognised text and completion text
\* determine, the same in both cases; a save that throws never leads to a
\* failure response.
C6_SaveFailureInvisible ==
    \A r \in Slots :
        Done(r) /\ req[r].saved # "no" => req[r].res = <<ExpectedAnswer(req[r])>>

C6_Witness ==
    \E r \in Slots :
        /\ Done(r)
        /\ req[r].saved = "failed"
        /\ req[r].res = <<ExpectedAnswer(req[r])>>

C8_ReportOwned ==
    \A i \in 1..Len(store) :
        /\ "userId" \in DOMAIN store[i].doc
        /\ store[i].doc.userId = store[i].by

\* C9: the list GET reports answers holds only Reports saved by requests of
\* the caller.
C9_ListScoped ==
    listing.status = 200 =>
        \A i \in 1..Len(listing.reports) : listing.reports[i].by = listing.caller

\* the Reports in the collection when the list was asked for
Stored == SubSeq(store, 1, listing.seen)
Count(docs, e) == Cardinality({i \in 1..Len(docs) : docs[i] = e})
Entries(docs) == {docs[i] : i \in 1..Len(docs)}

\* C10: the list GET reports answers holds at most 10 Reports (10, or all of
\* them when fewer are stored), all of them stored ones, none with a createdAt
\* smaller than that of a stored Report left out, ordered by createdAt
\* descending.
C10_NewestTen ==
    listing.status = 200 =>
        LET L == listing.reports
        IN  /\ Len(L) <= reportsLimit
            /\ Len(L) = IF listing.seen < reportsLimit THEN listing.seen ELSE reportsLimit
            /\ \A i \in 1..(Len(L) - 1) : L[i].doc.createdAt >= L[i + 1].doc.createdAt
            /\ \A e \in Entries(L) : Count(L, e) <= Count(Stored, e)
            /\ \A e \in Entries(Stored) :
                  Count(L, e) < Count(Stored, e) =>
                      \A i \in 1..Len(L) : L[i].doc.createdAt >= e.doc.createdAt

C10_Witness ==
    /\ listing.status = 200
    /\ listing.seen > reportsLimit
    /\ Len(listing.reports) = reportsLimit
    /\ listing.reports[1].doc.createdAt > listing.reports[reportsLimit].doc.createdAt
    /\ listing.reports[1] = store[listing.seen]

\* a request has come in slot r
Started(r) == req[r].pc # "idle"
\* its upload is not accepted: too large, not an image, or no file
Rejected(r) ==
    /\ Started(r)
    /\ \/ ~req[r].file.present
       \/ ~req[r].file.image
       \/ req[r].file.size > fileSize

\* C11: a request whose upload exceeds 5 MiB, is not an image or carries no
\* file invokes no pipeline stage: no worker is created, nothing is
\* recognised, the completion service is not called and no Report is saved.
C11_RejectedRunsNothing ==
    \A r \in Slots :
        Rejected(r) =>
            /\ Done(r)
            /\ req[r].calls = NoCalls
            /\ req[r].worker = 0
            /\ req[r].saved = "no"

C11_Witness ==
    \E r \in Slots :
        /\ Rejected(r)
        /\ req[r].file = Upload(TRUE, fileSize + 1)
        /\ Len(req[r].res) = 1
        /\ workers = {} /\ store = <<>>

\* the body of a fatal failure: {success: false, error, details?}
FailureShape(body) ==
    /\ {"success", "error"} \subseteq DOMAIN body
    /\ DOMAIN body \subseteq {"success", "error", "details"}
    /\ body.success = FALSE

\* C12: every rejected upload (too large, not an image, no file) is answered
\* with a status from 400 to 499 and a body {success: false, error, details?}.
C12_RejectedIs400 ==
    \A r \in Slots :
        Rejected(r) =>
            /\ Len(req[r].res) = 1
            /\ Answer(r).status \in 400..499
            /\ FailureShape(Answer(r).body)

\* the text is empty or whitespace only
Blank(text) == Len(Trim(text)) = 0
\* recognize and terminate have both returned
Extracted(r) ==
    /\ req[r].calls.recognize = 1
    /\ req[r].ocrError = ""
    /\ req[r].pc \notin {"recognize", "terminate"}

\* C13: when recognition and the release of the worker succeed and the
\* recognised text is empty or whitespace only, the request ends with status
\* 400 and success false, the completion service is not called and no Report
\* is saved.
C13_BlankTextIs400 ==
    \A r \in Slots :
        Extracted(r) /\ Blank(req[r].text) =>
            /\ req[r].res =
                  <<[status |-> 400,
                     body |-> Failure("No text could be extracted from the image")]>>
            /\ req[r].calls.complete = 0
            /\ req[r].calls.save = 0
            /\ req[r].saved = "no"

C13_Witness ==
    \E r \in Slots :
        /\ Extracted(r)
        /\ req[r].text = <<Ws>>
        /\ Answer(r).status = 400

\* C14 as stated: no finished request holds a live worker.
C14_NoLiveWorkerAtExit ==
    \A r \in Slots : Done(r) => req[r].worker \notin workers

\* the answer of the handler's outer catch to a terminate() that threw
TerminateFailedAnswer ==
    [status |-> 500, body |-> FailureDetails("Error processing report", "terminate failed")]

\* C14, amended: worker.terminate() is called for every created worker on
\* every exit path, and has returned before the completion service is called;
\* a finished request holds a live worker only if the terminate() call of the
\* catch block threw, and that request is answered 500 "Error processing
\* report".
C14_TerminateCalledAtExit ==
    \A r \in Slots :
        /\ req[r].pc \in {"complete", "save"} =>
              req[r].calls.terminate = 1 /\ req[r].worker \notin workers
        /\ Done(r) /\ req[r].worker # 0 =>
              /\ req[r].calls.terminate >= 1
              /\ req[r].worker \in workers => req[r].res = <<TerminateFailedAnswer>>

C14_Witness ==
    \E r \in Slots :
        /\ Done(r)
        /\ req[r].worker # 0
        /\ req[r].ocrError = "recognize failed"
        /\ req[r].worker \notin workers
        /\ Answer(r).status = 500

\* one response, of status 500 and success false
Failed500(r) ==
    /\ Len(req[r].res) = 1
    /\ Answer(r).status = 500
    /\ "success" \in DOMAIN Answer(r).body
    /\ Answer(r).body.success = FALSE

\* C15: a request whose createWorker() threw, whose recognize() threw, or
\* whose completion call threw or returned no content ends with status 500
\* and success false, and no later stage has run: no recognition after a
\* failed creation, no completion call after a failed extraction, no parse and
\* no save after a failed completion.
C15_FatalFailures ==
    \A r \in Slots :
        Done(r) =>
            /\ req[r].calls.createWorker = 1 /\ req[r].worker = 0 =>
                  /\ Failed500(r)
                  /\ req[r].calls.recognize = 0
                  /\ req[r].calls.complete = 0
                  /\ req[r].calls.save = 0
            /\ req[r].ocrError = "recognize failed" =>
                  /\ Failed500(r)
                  /\ req[r].calls.complete = 0
                  /\ req[r].calls.save = 0
            /\ req[r].calls.complete = 1 /\ req[r].content \in {NoContent, <<>>} =>
                  /\ Failed500(r)
                  /\ req[r].parsedAnalysis = Undefined
                  /\ req[r].calls.save = 0

C15_Witness ==
    \E r, t \in Slots :
        /\ Done(r) /\ req[r].ocrError = "recognize failed" /\ Failed500(r)
        /\ Done(t) /\ req[t].calls.complete = 1 /\ req[t].content = NoContent
        /\ Failed500(t)

\* C16: within one request createWorker, recognize, the completion service
\* and save() are each called at most once, whatever has failed.
C16_NoRetry ==
    \A r \in Slots :
        /\ req[r].calls.createWorker <= 1
        /\ req[r].calls.recognize <= 1
        /\ req[r].calls.complete <= 1
        /\ req[r].calls.save <= 1

C16_Witness ==
    \E r \in Slots :
        /\ Done(r)
        /\ req[r].calls.createWorker = 1
        /\ req[r].calls.recognize = 1
        /\ req[r].calls.complete = 1
        /\ req[r].calls.save = 1
        /\ req[r].saved = "failed"

\* C17: the Report collection only grows, at its end: every step keeps the
\* Reports that are stored, in their place and with their fields; a step that
\* adds one is the return of the save() of an analyze-report request and adds
\* exactly one; a reports or chat request leaves the collection as it is.
C17_AppendOnly ==
    [][/\ Len(store') >= Len(store)
       /\ SubSeq(store', 1, Len(store)) = store
       /\ store' # store =>
             /\ Len(store') = Len(store) + 1
             /\ \E r \in Slots : req[r].pc = "save" /\ req'[r].saved = "yes"
       /\ requests' # requests /\ req' = req => store' = store]_vars

C17_Witness ==
    /\ Len(store) = reportsLimit + 1
    /\ SubSeq(store, 1, reportsLimit) = EarlierReports
    /\ listing.status = 200
    /\ listing.seen = Len(store)

\* normalisation has started: the completion text was accepted and parsed
Normalizing(r) == req[r].parsedAnalysis # Undefined

\* the stages up to normalisation run in order, each after the one before it
\* has finished: recognition after the worker was created, the completion call
\* after recognition and release gave a text that is not blank, normalisation
\* after the completion service gave a text enclosed in braces, save() after
\* normalisation; and one response at most is sent, at the end
StagesInOrder(r) ==
    /\ req[r].calls.recognize = 1 =>
          req[r].calls.createWorker = 1 /\ req[r].worker # 0
    /\ req[r].calls.complete = 1 =>
          /\ req[r].calls.recognize = 1
          /\ req[r].calls.terminate = 1
          /\ ~Blank(req[r].text)
    /\ Normalizing(r) =>
          /\ req[r].calls.complete = 1
          /\ TextAnswer(r) \/ req[r].pc = "save"
          /\ Enclosed(req[r].content)
    /\ req[r].calls.save = 1 => Normalizing(r)
    /\ req[r].res # <<>> =>
          /\ Done(r)
          /\ Len(req[r].res) = 1
          /\ Answer(r).status \in {200, 400, 500}

\* a failure response comes from a request that has not started
\* normalisation; once the completion text is accepted the request ends with
\* status 200
FailsBeforeNormalizing(r) ==
    /\ Done(r) /\ Answer(r).status # 200 => ~Normalizing(r) /\ req[r].calls.save = 0
    /\ Done(r) /\ Normalizing(r) => Answer(r).status = 200

UsingWorker(r) == req[r].pc \in {"recognize", "terminate", "terminateCatch"}

\* what a 200 response holds, computed from the request's own recognised text
\* and completion text
OwnAnswer(q) ==
    LET p == ParseAndValidate(Trim(q.content))
    IN  IF p.threw
        THEN [success |-> TRUE, text |-> q.text, analysis |-> Wire(FallbackAnalysis),
              warning |-> FallbackWarning]
        ELSE [success |-> TRUE, text |-> q.text, analysis |-> Wire(p.parsedAnalysis)]

\* C19: under every interleaving of requests, no two requests have the same
\* worker, the worker of a request stays alive as long as the request uses it
\* (no other request terminates it), a worker is terminated only by a step of
\* the request that created it, and the text and analysis of a 200 response
\* are those of the request's own recognised text and completion text.
C19_NoSharedState ==
    /\ [](\A r \in Slots :
            /\ \A t \in Slots \ {r} : req[r].worker # 0 => req[r].worker # req[t].worker
            /\ UsingWorker(r) => req[r].worker \in workers
            /\ Done(r) /\ Answer(r).status = 200 => Answer(r).body = OwnAnswer(req[r]))
    /\ [][\A w \in workers \ workers' :
             \E r \in Slots :
                 /\ req[r].worker = w
                 /\ req[r].pc \in {"terminate", "terminateCatch"}
                 /\ req'[r].pc # req[r].pc]_vars

C19_Witness ==
    \E r, t \in Slots :
        /\ r # t
        /\ req[r].pc = "recognize"
        /\ Done(t) /\ Answer(t).status = 200
        /\ req[t].worker \notin workers
        /\ req[r].worker \in workers
        /\ req[r].worker > req[t].worker

\* all five sections, and the two lists of numericalData, are there and not null
SectionsPresent(a) ==
    /\ \A k \in RequiredFieldSet : HasField(a, k) /\ ~Absent(Section(a, k))
    /\ \A f \in {"metrics", "suggestedVisualizations"} :
          /\ HasField(Section(a, "numericalData"), f)
          /\ ~Absent(Sub(a, "numericalData", f))

\* C20: every stored Report has an analysis in which numericalData (with
\* metrics and suggestedVisualizations), keyFindings, recommendations,
\* urgentConcerns and simplifiedSummary are present and not null.
C20_StoredSectionsPresent ==
    \A i \in 1..Len(store) : SectionsPresent(store[i].doc.analysis)

C20_Witness ==
    \E i \in 1..Len(store) :
        /\ store[i].doc.summary = NullText
        /\ Section(JsonParse(store[i].doc.summary).v, "keyFindings") = Null
        /\ Section(store[i].doc.analysis, "keyFindings") = EmptyList

\* the lists of an analysis whose items have an enumerated field
EnumPaths(a) ==
    {<<Sub(a, "numericalData", "metrics"), "status", StatusEnum>>,
     <<Sub(a, "numericalData", "metrics"), "trend", TrendEnum>>,
     <<Sub(a, "numericalData", "suggestedVisualizations"), "type", VisualizationEnum>>,
     <<Section(a, "keyFindings"), "severity", StatusEnum>>,
     <<Section(a, "recommendations"), "priority", PriorityEnum>>,
     <<Section(a, "recommendations"), "timeframe", TimeframeEnum>>}

\* field e[2] of some item of the list e[1] has a value outside e[3]
Outside(e) ==
    \E i \in DOMAIN e[1].a : e[1].a[i].t = "obj" /\ ~EnumValid(e[1].a[i], e[2], e[3])

\* a well-typed analysis with an enumerated field outside its declared set
OutOfSet(a) == WellTyped(a) /\ \E e \in EnumPaths(a) : Outside(e)

\* the request in slot r got such an analysis from the completion service
GotOutOfSet(r) ==
    /\ Done(r)
    /\ ParsedObject(r)
    /\ Validates(GivenDoc(r))
    /\ OutOfSet(EnsureArrays(GivenDoc(r)))

\* C21 as stated: an analysis with an enumerated field outside its declared
\* set is returned unchanged and, when the database does not fail, stored as a
\* Report.
C21_OutOfSetPersisted ==
    \A r \in Slots :
        GotOutOfSet(r) /\ faults = 0 =>
            /\ PlainSuccess(r)
            /\ Answer(r).body.analysis = Wire(EnsureArrays(GivenDoc(r)))
            /\ req[r].saved = "yes"
            /\ \E i \in 1..Len(store) : store[i].doc.analysis = EnsureArrays(GivenDoc(r))

\* C21, amended: an analysis with an enumerated field outside its declared
\* set is returned unchanged in a 200 response without warning, but it is not
\* persisted: save() is called once and throws, and no stored Report has an
\* enumerated field outside its set.
C21_OutOfSetReturnedNotStored ==
    /\ \A r \in Slots :
          GotOutOfSet(r) =>
              /\ PlainSuccess(r)
              /\ Answer(r).body.analysis = Wire(EnsureArrays(GivenDoc(r)))
              /\ req[r].calls.save = 1
              /\ req[r].saved = "failed"
    /\ \A i \in 1..Len(store) : ~OutOfSet(store[i].doc.analysis)

C21_Witness ==
    \E r \in Slots :
        /\ GotOutOfSet(r)
        /\ faults = 0
        /\ Outside(<<Section(GivenDoc(r), "recommendations"), "timeframe", TimeframeEnum>>)
        /\ Answer(r).status = 200
        /\ req[r].saved = "failed"

\* the parse block threw on the completion text of the request in slot r
Degraded(r) == Normalizing(r) /\ ParseAndValidate(Trim(req[r].content)).threw

C23_LegacyWorkerTerminated ==
    \A r \in Slots :
        Done(r) /\ req[r].worker # 0 => req[r].calls.terminate >= 1

\* C24: a request that passed upload handling has sent no response while its
\* handler runs and exactly one when it has finished, on every path; and when
\* every awaited call returns or throws, the handler does finish.
Accepted(r) == Started(r) /\ UploadError(req[r].file) = ""
C24_ExactlyOneResponse ==
    /\ [](\A r \in Slots :
            Accepted(r) => Len(req[r].res) = (IF Done(r) THEN 1 ELSE 0))
    /\ \A r \in Slots : (Accepted(r) /\ ~Done(r)) ~> Done(r)
C24_Witness ==
    \E r \in Slots :
        /\ Accepted(r) /\ Done(r)
        /\ req[r].calls.terminate = 2
        /\ req[r].worker \in workers
        /\ req[r].res = <<TerminateFailedAnswer>>

\* C25: worker.terminate() is invoked exactly once for each worker created,
\* also when terminate() itself throws after a successful recognition, and
\* then the request is not answered as an image-processing failure.
TerminateFailedAfterRecognition(r) ==
    req[r].calls.recognize = 1 /\ req[r].ocrError = "terminate failed"
C25_TerminateOnce ==
    \A r \in Slots :
        Done(r) /\ req[r].worker # 0 =>
            /\ req[r].calls.terminate = 1
            /\ TerminateFailedAfterRecognition(r) =>
                  Answer(r).body.error # "Failed to process image"

\* C26: when the completion service is called, worker.terminate() has been
\* invoked and has returned, so a request that waits for the completion
\* service or for the store holds no live worker.
Waiting(r) == req[r].pc \in {"complete", "save"}
C26_NoWorkerWhileWaiting ==
    \A r \in Slots :
        /\ req[r].calls.complete > 0 =>
              req[r].calls.terminate = 1 /\ req[r].ocrError = ""
        /\ Waiting(r) =>
              /\ req[r].worker # 0
              /\ req[r].worker \notin workers
              /\ \A t \in Slots \ {r} : UsingWorker(t) => req[t].worker # req[r].worker
C26_Witness ==
    \E r \in Slots, t \in Slots :
        /\ req[r].pc = "save"
        /\ req[r].calls.terminate = 1
        /\ req[r].worker \notin workers
        /\ req[t].pc = "complete"
        /\ workers = {}

\* C27: a request adds at most one Report and only a request that ends with
\* 200 adds one; a request that ends with 400 or 500 has stored nothing; the
\* Report a request adds has the text and the analysis of its response.
Newest(docs) == docs[Len(docs)].doc
C27_ReportMatchesResponse ==
    /\ [](\A r \in Slots :
            /\ req[r].calls.save <= 1
            /\ req[r].saved = "yes" => Done(r) /\ Answer(r).status = 200
            /\ Done(r) /\ Answer(r).status # 200 =>
                  req[r].calls.save = 0 /\ req[r].saved = "no")
    /\ [][/\ Len(store') <= Len(store) + 1
          /\ store' # store =>
                \E r \in Slots :
                    /\ req[r].pc = "save" /\ req[r].saved = "no"
                    /\ \A t \in Slots \ {r} : req'[t] = req[t]
                    /\ req'[r].pc = "done" /\ req'[r].saved = "yes"
                    /\ Len(req'[r].res) = 1
                    /\ req'[r].res[1].status = 200
                    /\ Newest(store').originalText = req'[r].res[1].body.text
                    /\ Newest(store').analysis = req'[r].res[1].body.analysis
          /\ \A r \in Slots :
                req'[r] # req[r] /\ req'[r].pc = "done" /\ req'[r].res[1].status # 200 =>
                    store' = store]_vars
C27_Witness ==
    \E r \in Slots, t \in Slots :
        /\ Done(r) /\ req[r].saved = "yes"
        /\ Answer(r).body.text = <<Ws, Word("Glucose")>>
        /\ Done(t) /\ Answer(t).status = 500 /\ req[t].text = <<Word("Hemoglobin")>>
        /\ Len(store) = 1
        /\ Newest(store).originalText = Answer(r).body.text
        /\ Newest(store).analysis = Answer(r).body.analysis

====
